---- MODULE Spec2Model ----
(***************************************************************************)
(* Model of the code typing practice game (src/typing_game_gui.py).        *)
(*                                                                         *)
(* TypingInputWidget is the typing matcher: it holds the target text, the  *)
(* caret position and the error / keystroke counters, and its              *)
(* keyPressEvent handler compares one key event at a time against the      *)
(* target.  TypingGameWindow owns the widget, the one-second countdown     *)
(* timer, the progress bar and the start button.  Qt signals are direct    *)
(* connections: a slot runs to its end inside emit(), so a handler is one  *)
(* atomic action here, slots included.  The one handler that waits is      *)
(* end_game, in its modal results box: it is two actions, the part up to   *)
(* the box and the part after the user has closed it.                      *)
(*                                                                         *)
(* Four specifications are given.  Spec is the whole window: key events    *)
(* reach the widget only while it is enabled, as Qt delivers them.         *)
(* FairSpec is Spec with a game timer that keeps firing while it runs.     *)
(* WidgetSpec is the TypingInputWidget on its own, its two public methods  *)
(* called in any order, which is how the states "no target", "empty        *)
(* target" and "key event after completion" are exercised.  ProviderSpec   *)
(* is the start of a session on provider answers of full length.           *)
(*                                                                         *)
(* Texts are sequences of one-character strings.  The snippets of the      *)
(* program are some 2000 characters long; the model uses short stand-ins.  *)
(***************************************************************************)
EXTENDS Integers, Sequences, FiniteSets, TLC

VARIABLES
    target_code,        \* TypingInputWidget._target_code
    current_position,   \* TypingInputWidget._current_position
    error_count,        \* TypingInputWidget._error_count
    total_keystrokes,   \* TypingInputWidget._total_keystrokes
    typed,              \* the document of the typing QTextEdit
    cursor,             \* its text cursor, 0 .. Len(typed)
    remaining_seconds,  \* TypingGameWindow.remaining_seconds
    elapsed_seconds,    \* TypingGameWindow.elapsed_seconds
    timer_active,       \* game_timer.isActive()
    input_enabled,      \* typing_input.isEnabled()
    start_enabled,      \* start_button.isEnabled()
    progress_bar,       \* progress_bar.value()
    timer_display,      \* what timer_display shows: "Time", "Completed!", "Time's Up!"
    message_box,        \* the open results box of end_game, by its first line; "" if none
    last,               \* the event handled last
    out,                \* the signals emitted while handling it, in order
    calls,              \* the calls it made on the code generator and QMessageBox
    reads               \* the indices of _target_code it read

vars == <<target_code, current_position, error_count, total_keystrokes, typed,
          cursor, remaining_seconds, elapsed_seconds, timer_active,
          input_enabled, start_enabled, progress_bar, timer_display,
          message_box, last, out, calls, reads>>

widgetVars == <<target_code, current_position, error_count, total_keystrokes,
                typed, cursor>>

windowVars == <<remaining_seconds, elapsed_seconds, timer_active, input_enabled,
                start_enabled, progress_bar, timer_display, message_box>>

----------------------------------------------------------------------------
(* Bounds *)

\* evaluated keystrokes per session
MaxKeystrokes == 3

----------------------------------------------------------------------------
(* Inputs *)

NL == "\n"

\* short texts for set_target_code
Targets == { <<"a">>, <<"a", "b">>, <<"a", NL, "b">>, <<"a", NL>> }

\* what set_target_code can be called with: these, and the empty text
WidgetTargets == Targets \cup { <<>> }

\* the entries of timer_combo
TimerTexts == { [n |-> 30, unit |-> "seconds"], [n |-> 1, unit |-> "minute"],
                [n |-> 2, unit |-> "minutes"],  [n |-> 3, unit |-> "minutes"] }

\* QKeyEvent: key(), text(), modifiers().  BS stands for U+0008 and ETX for
\* U+0003, the texts Qt gives Backspace and Ctrl+C.
KeyA         == [key |-> "Key_A",         text |-> "a",   mods |-> {}]
KeyB         == [key |-> "Key_B",         text |-> "b",   mods |-> {}]
KeyX         == [key |-> "Key_X",         text |-> "x",   mods |-> {}]
KeyReturn    == [key |-> "Key_Return",    text |-> "\r",  mods |-> {}]
KeyEnter     == [key |-> "Key_Enter",     text |-> "\r",  mods |-> {"Keypad"}]
CtrlReturn   == [key |-> "Key_Return",    text |-> "\r",  mods |-> {"Control"}]
KeyShift     == [key |-> "Key_Shift",     text |-> "",    mods |-> {"Shift"}]
KeyLeft      == [key |-> "Key_Left",      text |-> "",    mods |-> {}]
KeyBackspace == [key |-> "Key_Backspace", text |-> "BS",  mods |-> {}]
CtrlC        == [key |-> "Key_C",         text |-> "ETX", mods |-> {"Control"}]

KeyEvents == { KeyA, KeyB, KeyX, KeyReturn, KeyEnter, CtrlReturn, KeyShift,
               KeyLeft, KeyBackspace, CtrlC }

----------------------------------------------------------------------------
(* TypingInputWidget *)

\* the widget's fields as one value
Widget == [target_code      |-> target_code,
           current_position |-> current_position,
           error_count      |-> error_count,
           total_keystrokes |-> total_keystrokes,
           typed            |-> typed,
           cursor           |-> cursor]

\* __init__
InitWidget == [target_code      |-> <<>>,
               current_position |-> 0,
               error_count      |-> 0,
               total_keystrokes |-> 0,
               typed            |-> <<>>,
               cursor           |-> 0]

\* cursor = self.textCursor(); cursor.insertText(s); self.setTextCursor(cursor)
InsertText(w, s) ==
    [w EXCEPT !.typed  = SubSeq(w.typed, 1, w.cursor) \o <<s>>
                         \o SubSeq(w.typed, w.cursor + 1, Len(w.typed)),
              !.cursor = w.cursor + 1]

\* QTextEdit.keyPressEvent for the keys the widget does not handle itself:
\* Left moves the text cursor, the others here change nothing
SuperKeyPressEvent(w, ev) ==
    IF ev.key = "Key_Left"
    THEN [w EXCEPT !.cursor = IF w.cursor > 0 THEN w.cursor - 1 ELSE 0]
    ELSE w

\* set_target_code that forgets to reset the caret
SetTargetCode_KeepPosition(w, code) ==
    [target_code      |-> code,
     current_position |-> w.current_position,
     error_count      |-> 0,
     total_keystrokes |-> 0,
     typed            |-> <<>>,
     cursor           |-> 0]

\* set_target_code that forgets to reset the keystroke counter
SetTargetCode_KeepKeystrokes(w, code) ==
    [target_code      |-> code,
     current_position |-> 0,
     error_count      |-> 0,
     total_keystrokes |-> w.total_keystrokes,
     typed            |-> <<>>,
     cursor           |-> 0]

\* set_target_code(code)
SetTargetCode(w, code) ==
    [target_code      |-> code,
     current_position |-> 0,
     error_count      |-> 0,
     total_keystrokes |-> 0,
     typed            |-> <<>>,
     cursor           |-> 0]

\* the two signals; "at" is the widget as a slot sees it during emit()
TypingProgress(w, is_correct) ==
    [sig |-> "typing_progress", position |-> w.current_position,
     is_correct |-> is_correct, at |-> w]

TypingComplete(w) == [sig |-> "typing_complete", at |-> w]

\* the Enter branch with the completion test written > instead of >=
EnterBranch_NoComplete(w) ==
    IF w.current_position < Len(w.target_code)
    THEN LET expected_char == w.target_code[w.current_position + 1]
             is_correct == expected_char = NL
             w1 == [w EXCEPT !.total_keystrokes = @ + 1,
                             !.error_count = IF is_correct THEN @ ELSE @ + 1]
             w2 == IF is_correct
                   THEN InsertText([w1 EXCEPT !.current_position = @ + 1], NL)
                   ELSE w1
         IN  [w   |-> w2,
              out |-> <<TypingProgress(w1, is_correct)>> \o
                      (IF is_correct /\ w2.current_position > Len(w2.target_code)
                       THEN <<TypingComplete(w2)>> ELSE <<>>),
              reads |-> <<w.current_position>>]
    ELSE [w |-> w, out |-> <<>>, reads |-> <<>>]

\* the Enter branch comparing with carriage return, the text of the key
EnterBranch_CarriageReturn(w) ==
    IF w.current_position < Len(w.target_code)
    THEN LET expected_char == w.target_code[w.current_position + 1]
             is_correct == expected_char = "\r"
             w1 == [w EXCEPT !.total_keystrokes = @ + 1,
                             !.error_count = IF is_correct THEN @ ELSE @ + 1]
             w2 == IF is_correct
                   THEN InsertText([w1 EXCEPT !.current_position = @ + 1], NL)
                   ELSE w1
         IN  [w   |-> w2,
              out |-> <<TypingProgress(w1, is_correct)>> \o
                      (IF is_correct /\ w2.current_position >= Len(w2.target_code)
                       THEN <<TypingComplete(w2)>> ELSE <<>>),
              reads |-> <<w.current_position>>]
    ELSE [w |-> w, out |-> <<>>, reads |-> <<>>]

\* the Enter branch without its keystroke count
EnterBranch_NoTotal(w) ==
    IF w.current_position < Len(w.target_code)
    THEN LET expected_char == w.target_code[w.current_position + 1]
             is_correct == expected_char = NL
             w1 == [w EXCEPT !.total_keystrokes = @,
                             !.error_count = IF is_correct THEN @ ELSE @ + 1]
             w2 == IF is_correct
                   THEN InsertText([w1 EXCEPT !.current_position = @ + 1], NL)
                   ELSE w1
         IN  [w   |-> w2,
              out |-> <<TypingProgress(w1, is_correct)>> \o
                      (IF is_correct /\ w2.current_position >= Len(w2.target_code)
                       THEN <<TypingComplete(w2)>> ELSE <<>>),
              reads |-> <<w.current_position>>]
    ELSE [w |-> w, out |-> <<>>, reads |-> <<>>]

\* the Enter branch that does not count a wrong Enter as an error
EnterBranch_NoError(w) ==
    IF w.current_position < Len(w.target_code)
    THEN LET expected_char == w.target_code[w.current_position + 1]
             is_correct == expected_char = NL
             w1 == [w EXCEPT !.total_keystrokes = @ + 1]
             w2 == IF is_correct
                   THEN InsertText([w1 EXCEPT !.current_position = @ + 1], NL)
                   ELSE w1
         IN  [w   |-> w2,
              out |-> <<TypingProgress(w1, is_correct)>> \o
                      (IF is_correct /\ w2.current_position >= Len(w2.target_code)
                       THEN <<TypingComplete(w2)>> ELSE <<>>),
              reads |-> <<w.current_position>>]
    ELSE [w |-> w, out |-> <<>>, reads |-> <<>>]

\* keyPressEvent, the Enter/Return branch
EnterBranch(w) ==
    IF w.current_position < Len(w.target_code)
    THEN LET expected_char == w.target_code[w.current_position + 1]
             is_correct == expected_char = NL
             w1 == [w EXCEPT !.total_keystrokes = @ + 1,
                             !.error_count = IF is_correct THEN @ ELSE @ + 1]
             w2 == IF is_correct
                   THEN InsertText([w1 EXCEPT !.current_position = @ + 1], NL)
                   ELSE w1
         IN  [w   |-> w2,
              out |-> <<TypingProgress(w1, is_correct)>> \o
                      (IF is_correct /\ w2.current_position >= Len(w2.target_code)
                       THEN <<TypingComplete(w2)>> ELSE <<>>),
              reads |-> <<w.current_position>>]
    ELSE [w |-> w, out |-> <<>>, reads |-> <<>>]

\* the character branch without the caret advance
CharBranch_NoAdvance(w, typed_char) ==
    IF w.current_position < Len(w.target_code)
    THEN LET expected_char == w.target_code[w.current_position + 1]
             is_correct == typed_char = expected_char
             w1 == [w EXCEPT !.total_keystrokes = @ + 1,
                             !.error_count = IF is_correct THEN @ ELSE @ + 1]
             w2 == IF is_correct
                   THEN InsertText([w1 EXCEPT !.current_position = @], typed_char)
                   ELSE w1
         IN  [w   |-> w2,
              out |-> <<TypingProgress(w1, is_correct)>> \o
                      (IF is_correct /\ w2.current_position >= Len(w2.target_code)
                       THEN <<TypingComplete(w2)>> ELSE <<>>),
              reads |-> <<w.current_position>>]
    ELSE [w |-> w, out |-> <<>>, reads |-> <<>>]

\* the character branch advancing the caret on a wrong character too
CharBranch_AdvanceAlways(w, typed_char) ==
    IF w.current_position < Len(w.target_code)
    THEN LET expected_char == w.target_code[w.current_position + 1]
             is_correct == typed_char = expected_char
             w1 == [w EXCEPT !.total_keystrokes = @ + 1,
                             !.error_count = IF is_correct THEN @ ELSE @ + 1]
             w2 == IF TRUE
                   THEN InsertText([w1 EXCEPT !.current_position = @ + 1], typed_char)
                   ELSE w1
         IN  [w   |-> w2,
              out |-> <<TypingProgress(w1, is_correct)>> \o
                      (IF is_correct /\ w2.current_position >= Len(w2.target_code)
                       THEN <<TypingComplete(w2)>> ELSE <<>>),
              reads |-> <<w.current_position>>]
    ELSE [w |-> w, out |-> <<>>, reads |-> <<>>]

\* the character branch counting the keystroke before the range test
CharBranch_CountBeforeCheck(w, typed_char) ==
    IF w.current_position < Len(w.target_code)
    THEN LET expected_char == w.target_code[w.current_position + 1]
             is_correct == typed_char = expected_char
             w1 == [w EXCEPT !.total_keystrokes = @ + 1,
                             !.error_count = IF is_correct THEN @ ELSE @ + 1]
             w2 == IF is_correct
                   THEN InsertText([w1 EXCEPT !.current_position = @ + 1], typed_char)
                   ELSE w1
         IN  [w   |-> w2,
              out |-> <<TypingProgress(w1, is_correct)>> \o
                      (IF is_correct /\ w2.current_position >= Len(w2.target_code)
                       THEN <<TypingComplete(w2)>> ELSE <<>>),
              reads |-> <<w.current_position>>]
    ELSE [w |-> [w EXCEPT !.total_keystrokes = @ + 1], out |-> <<>>, reads |-> <<>>]

\* the character branch emitting typing_progress after the caret advance
CharBranch_EmitAfterAdvance(w, typed_char) ==
    IF w.current_position < Len(w.target_code)
    THEN LET expected_char == w.target_code[w.current_position + 1]
             is_correct == typed_char = expected_char
             w1 == [w EXCEPT !.total_keystrokes = @ + 1,
                             !.error_count = IF is_correct THEN @ ELSE @ + 1]
             w2 == IF is_correct
                   THEN InsertText([w1 EXCEPT !.current_position = @ + 1], typed_char)
                   ELSE w1
         IN  [w   |-> w2,
              out |-> <<TypingProgress(w2, is_correct)>> \o
                      (IF is_correct /\ w2.current_position >= Len(w2.target_code)
                       THEN <<TypingComplete(w2)>> ELSE <<>>),
              reads |-> <<w.current_position>>]
    ELSE [w |-> w, out |-> <<>>, reads |-> <<>>]

\* the character branch with the range test written <= instead of <: at the
\* end of the target the read of expected_char raises IndexError
CharBranch_ReadsAtEnd(w, typed_char) ==
    IF w.current_position < Len(w.target_code)
    THEN LET expected_char == w.target_code[w.current_position + 1]
             is_correct == typed_char = expected_char
             w1 == [w EXCEPT !.total_keystrokes = @ + 1,
                             !.error_count = IF is_correct THEN @ ELSE @ + 1]
             w2 == IF is_correct
                   THEN InsertText([w1 EXCEPT !.current_position = @ + 1], typed_char)
                   ELSE w1
         IN  [w   |-> w2,
              out |-> <<TypingProgress(w1, is_correct)>> \o
                      (IF is_correct /\ w2.current_position >= Len(w2.target_code)
                       THEN <<TypingComplete(w2)>> ELSE <<>>),
              reads |-> <<w.current_position>>]
    ELSE IF w.current_position = Len(w.target_code)
    THEN [w |-> w, out |-> <<>>, reads |-> <<w.current_position>>]
    ELSE [w |-> w, out |-> <<>>, reads |-> <<>>]

\* keyPressEvent, the character branch
CharBranch(w, typed_char) ==
    IF w.current_position < Len(w.target_code)
    THEN LET expected_char == w.target_code[w.current_position + 1]
             is_correct == typed_char = expected_char
             w1 == [w EXCEPT !.total_keystrokes = @ + 1,
                             !.error_count = IF is_correct THEN @ ELSE @ + 1]
             w2 == IF is_correct
                   THEN InsertText([w1 EXCEPT !.current_position = @ + 1], typed_char)
                   ELSE w1
         IN  [w   |-> w2,
              out |-> <<TypingProgress(w1, is_correct)>> \o
                      (IF is_correct /\ w2.current_position >= Len(w2.target_code)
                       THEN <<TypingComplete(w2)>> ELSE <<>>),
              reads |-> <<w.current_position>>]
    ELSE [w |-> w, out |-> <<>>, reads |-> <<>>]

\* event.key() == Qt.Key_Return or event.key() == Qt.Key_Enter
IsEnterKey(ev) == ev.key = "Key_Return" \/ ev.key = "Key_Enter"

\* event.text() and not event.modifiers() & (ControlModifier | AltModifier)
IsCharKey(ev) == ev.text # "" /\ ev.mods \cap {"Control", "Alt"} = {}

\* keyPressEvent counting the key event before the test for a target
KeyPressEvent_CountFirst(w, ev) ==
    LET w0 == [w EXCEPT !.total_keystrokes = @ + 1]
    IN  IF w0.target_code = <<>> THEN [w |-> w0, out |-> <<>>, reads |-> <<>>]
        ELSE IF IsEnterKey(ev) THEN EnterBranch(w)
        ELSE IF IsCharKey(ev) THEN CharBranch(w, ev.text)
        ELSE [w |-> SuperKeyPressEvent(w, ev), out |-> <<>>, reads |-> <<>>]

\* keyPressEvent(event)
KeyPressEvent(w, ev) ==
    IF w.target_code = <<>> THEN [w |-> w, out |-> <<>>, reads |-> <<>>]
    ELSE IF IsEnterKey(ev) THEN EnterBranch(w)
    ELSE IF IsCharKey(ev) THEN CharBranch(w, ev.text)
    ELSE [w |-> SuperKeyPressEvent(w, ev), out |-> <<>>, reads |-> <<>>]


SetWidget(w) ==
    /\ target_code' = w.target_code
    /\ current_position' = w.current_position
    /\ error_count' = w.error_count
    /\ total_keystrokes' = w.total_keystrokes
    /\ typed' = w.typed
    /\ cursor' = w.cursor

----------------------------------------------------------------------------
(* Derived metrics.  The source computes them in floating point; the model  *)
(* gives the exact quotient as numerator and denominator.                   *)

Rat(n, d) == [num |-> n, den |-> d]

\* get_accuracy without the test for no keystrokes: a division by zero
GetAccuracy_NoZeroCheck(w) ==
    Rat(100 * w.total_keystrokes - 100 * w.error_count, w.total_keystrokes)

\* get_accuracy(): 100.0 - error_count / total_keystrokes * 100.0
GetAccuracy(w) ==
    IF w.total_keystrokes = 0 THEN Rat(100, 1)
    ELSE Rat(100 * w.total_keystrokes - 100 * w.error_count, w.total_keystrokes)

\* get_wpm that counts every keystroke, wrong ones included, as typed text
GetWpm_FromKeystrokes(w, seconds) ==
    IF seconds = 0 THEN Rat(0, 1)
    ELSE Rat(w.total_keystrokes * 60, 5 * seconds)

\* get_wpm(elapsed_seconds): (current_position / 5) / (elapsed_seconds / 60)
GetWpm(w, seconds) ==
    IF seconds = 0 THEN Rat(0, 1)
    ELSE Rat(w.current_position * 60, 5 * seconds)

\* get_progress_percentage(): (current_position / len(target_code)) * 100
GetProgressPercentage(w) ==
    IF w.target_code = <<>> THEN Rat(0, 1)
    ELSE Rat(w.current_position * 100, Len(w.target_code))

\* The exact quotients 100 * p / n at which the double (p / n) * 100 of
\* get_progress_percentage is just below the quotient: (29 / 100) * 100 is
\* 28.999999999999996.  It happens where the quotient is one of these whole
\* numbers and for no other whole quotient in 0..100; a quotient that is not
\* whole is further from a whole number than the rounding error.
RoundsBelow == {29, 57, 58}

\* int(progress): the fraction of the double is dropped
ToInt(r) ==
    LET q == r.num \div r.den
    IN  IF r.num % r.den = 0 /\ q \in RoundsBelow THEN q - 1 ELSE q

----------------------------------------------------------------------------
(* CodeGenerator (src/code_generator.py) *)

\* the entries of language_combo
Languages == { "Python", "C++", "Java", "Rust", "JavaScript" }

\* start_game: language_map.get(currentText().lower(), "py")
LanguageCode(language) ==
    CASE language = "Python"     -> "py"
      [] language = "C++"        -> "cpp"
      [] language = "Java"       -> "java"
      [] language = "Rust"       -> "rust"
      [] language = "JavaScript" -> "javascript"
      [] OTHER                   -> "py"

\* _get_sample_code(language): samples.get(language, samples["py"]).  The
\* snippets of the source have 49 to 62 lines; these stand for them.
GetSampleCode(language) ==
    CASE language = "cpp"        -> <<"a", NL, "b">>
      [] language = "java"       -> <<"a", NL>>
      [] language = "rust"       -> <<"a">>
      [] language = "javascript" -> <<"b">>
      [] OTHER                   -> <<"a", "b">>

\* What happens inside generate_code: the client was not constructed
\* (is_api_available is False), the request or the clean-up of the answer
\* raises, or the clean-up leaves a text.
Unavailable == [kind |-> "unavailable", text |-> <<>>]
Raises      == [kind |-> "raises",      text |-> <<>>]
Answer(t)   == [kind |-> "text",        text |-> t]

\* generate_code(language): every exception is caught inside it
GenerateCode(language, reply) ==
    IF reply.kind = "unavailable"
    THEN [raised |-> FALSE, code |-> GetSampleCode(language),
          calls |-> <<"generate_code", "_get_sample_code">>]
    ELSE IF reply.kind = "raises"
    THEN [raised |-> FALSE, code |-> GetSampleCode(language),
          calls |-> <<"generate_code", "chat.completions.create",
                      "_get_sample_code">>]
    ELSE [raised |-> FALSE, code |-> reply.text,
          calls |-> <<"generate_code", "chat.completions.create">>]

\* str.split("\n"), by halves: the pieces between the newlines of a text
RECURSIVE SplitNL(_)
SplitNL(text) ==
    IF text = <<>> THEN << <<>> >>
    ELSE IF Len(text) = 1
    THEN IF text[1] = NL THEN << <<>>, <<>> >> ELSE << text >>
    ELSE LET h == Len(text) \div 2
             p == SplitNL(SubSeq(text, 1, h))
             q == SplitNL(SubSeq(text, h + 1, Len(text)))
         IN  SubSeq(p, 1, Len(p) - 1) \o << p[Len(p)] \o q[1] >>
             \o SubSeq(q, 2, Len(q))

\* str.splitlines() for texts whose only line boundary is "\n": the pieces,
\* without the empty piece after a final newline
SplitLines(text) ==
    LET p == SplitNL(text)
    IN  IF p[Len(p)] = <<>> THEN SubSeq(p, 1, Len(p) - 1) ELSE p

\* "\n".join(lines), by halves
RECURSIVE JoinLines(_)
JoinLines(lines) ==
    IF lines = <<>> THEN <<>>
    ELSE IF Len(lines) = 1 THEN lines[1]
    ELSE LET h == Len(lines) \div 2
         IN  JoinLines(SubSeq(lines, 1, h)) \o <<NL>>
             \o JoinLines(SubSeq(lines, h + 1, Len(lines)))

----------------------------------------------------------------------------
(* TypingGameWindow *)

\* start_game: the timer text to seconds
ParseTimer(t) == IF t.unit = "seconds" THEN t.n ELSE t.n * 60

\* the try block with the lower limit written <= 175 instead of < 175
CurrentCode_TooShortAt175(language_code, reply) ==
    LET g == GenerateCode(language_code, reply)
    IN  IF g.raised
        THEN [code  |-> GetSampleCode(language_code),
              calls |-> g.calls \o <<"_get_sample_code", "QMessageBox.warning">>]
        ELSE LET lines == SplitLines(g.code)
             IN  IF Len(lines) > 200
                 THEN [code  |-> JoinLines(SubSeq(lines, 1, 200)),
                       calls |-> g.calls]
                 ELSE IF Len(lines) <= 175
                 THEN [code  |-> GetSampleCode(language_code),
                       calls |-> g.calls \o <<"_get_sample_code">>]
                 ELSE [code |-> g.code, calls |-> g.calls]

\* start_game, the try block that settles current_code
CurrentCode(language_code, reply) ==
    LET g == GenerateCode(language_code, reply)
    IN  IF g.raised
        THEN [code  |-> GetSampleCode(language_code),
              calls |-> g.calls \o <<"_get_sample_code", "QMessageBox.warning">>]
        ELSE LET lines == SplitLines(g.code)
             IN  IF Len(lines) > 200
                 THEN [code  |-> JoinLines(SubSeq(lines, 1, 200)),
                       calls |-> g.calls]
                 ELSE IF Len(lines) < 175
                 THEN [code  |-> GetSampleCode(language_code),
                       calls |-> g.calls \o <<"_get_sample_code">>]
                 ELSE [code |-> g.code, calls |-> g.calls]

Init ==
    /\ target_code = <<>>
    /\ current_position = 0
    /\ error_count = 0
    /\ total_keystrokes = 0
    /\ typed = <<>>
    /\ cursor = 0
    /\ remaining_seconds = 0
    /\ elapsed_seconds = 0
    /\ timer_active = FALSE
    /\ input_enabled = FALSE
    /\ start_enabled = TRUE
    /\ progress_bar = 0
    /\ timer_display = "Time"
    /\ message_box = ""
    /\ last = [kind |-> "init"]
    /\ out = <<>>
    /\ calls = <<>>
    /\ reads = <<>>

\* start_game, on a click of the enabled start button
StartGame(language, t, reply) ==
    /\ start_enabled
    /\ message_box = ""
    /\ LET c == CurrentCode(LanguageCode(language), reply)
       IN  /\ SetWidget(SetTargetCode(Widget, c.code))
           /\ calls' = c.calls
    /\ remaining_seconds' = ParseTimer(t)
    /\ elapsed_seconds' = 0
    /\ timer_display' = "Time"
    /\ message_box' = ""
    /\ progress_bar' = 0
    /\ input_enabled' = TRUE
    /\ timer_active' = TRUE
    /\ start_enabled' = FALSE
    /\ last' = [kind |-> "start", language |-> language, timer |-> t,
                reply |-> reply]
    /\ out' = <<>>
    /\ reads' = <<>>

\* end_game that leaves the typing input enabled
EndGame_InputStaysEnabled(completed) ==
    /\ timer_active' = FALSE
    /\ input_enabled' = input_enabled
    /\ start_enabled' = TRUE
    /\ message_box' = IF completed THEN "Congratulations!" ELSE "Time's up!"
    /\ timer_display' = timer_display
    /\ calls' = <<"QMessageBox.information">>

\* end_game that does not stop the timer
EndGame_TimerKeepsRunning(completed) ==
    /\ timer_active' = timer_active
    /\ input_enabled' = FALSE
    /\ start_enabled' = TRUE
    /\ message_box' = IF completed THEN "Congratulations!" ELSE "Time's up!"
    /\ timer_display' = timer_display
    /\ calls' = <<"QMessageBox.information">>

\* end_game(completed) up to its QMessageBox.information: the box is modal
\* and end_game waits in it until the user closes it
EndGame(completed) ==
    /\ timer_active' = FALSE
    /\ input_enabled' = FALSE
    /\ start_enabled' = TRUE
    /\ message_box' = IF completed THEN "Congratulations!" ELSE "Time's up!"
    /\ timer_display' = timer_display
    /\ calls' = <<"QMessageBox.information">>

\* update_timer that adds the second it takes from remaining_seconds twice
UpdateTimer_ElapsedTwice ==
    /\ timer_active
    /\ remaining_seconds' = remaining_seconds - 1
    /\ elapsed_seconds' = elapsed_seconds + 2
    /\ IF remaining_seconds' <= 0
       THEN EndGame(FALSE)
       ELSE /\ UNCHANGED <<timer_active, input_enabled, start_enabled,
                           timer_display, message_box>>
            /\ calls' = <<>>
    /\ UNCHANGED <<widgetVars, progress_bar>>
    /\ last' = [kind |-> "tick"]
    /\ out' = <<>>
    /\ reads' = <<>>

\* update_timer with the end test written < 0 instead of <= 0
UpdateTimer_EndsBelowZero ==
    /\ timer_active
    /\ remaining_seconds' = remaining_seconds - 1
    /\ elapsed_seconds' = elapsed_seconds + 1
    /\ IF remaining_seconds' < 0
       THEN EndGame(FALSE)
       ELSE /\ UNCHANGED <<timer_active, input_enabled, start_enabled,
                           timer_display, message_box>>
            /\ calls' = <<>>
    /\ UNCHANGED <<widgetVars, progress_bar>>
    /\ last' = [kind |-> "tick"]
    /\ out' = <<>>
    /\ reads' = <<>>

\* update_timer, on a timeout of the running game_timer
UpdateTimer ==
    /\ timer_active
    /\ remaining_seconds' = remaining_seconds - 1
    /\ elapsed_seconds' = elapsed_seconds + 1
    /\ IF remaining_seconds' <= 0
       THEN EndGame(FALSE)
       ELSE /\ UNCHANGED <<timer_active, input_enabled, start_enabled,
                           timer_display, message_box>>
            /\ calls' = <<>>
    /\ UNCHANGED <<widgetVars, progress_bar>>
    /\ last' = [kind |-> "tick"]
    /\ out' = <<>>
    /\ reads' = <<>>

\* the key event with typing_complete connected to no slot
KeyPress_NoEndOnComplete(ev) ==
    /\ input_enabled
    /\ LET r == KeyPressEvent(Widget, ev)
       IN  /\ Len(r.out) > 0 => total_keystrokes < MaxKeystrokes
           /\ SetWidget(r.w)
           /\ out' = r.out
           /\ reads' = r.reads
           /\ progress_bar' = IF Len(r.out) > 0
                              THEN ToInt(GetProgressPercentage(r.out[1].at))
                              ELSE progress_bar
           /\ UNCHANGED <<timer_active, input_enabled, start_enabled,
                          timer_display, message_box>>
           /\ calls' = <<>>
    /\ UNCHANGED <<remaining_seconds, elapsed_seconds>>
    /\ last' = [kind |-> "key", ev |-> ev]

\* a key event Qt delivers to the enabled typing input: keyPressEvent with
\* the slots update_typing_progress and handle_typing_complete run inside it
KeyPress(ev) ==
    /\ input_enabled
    /\ LET r == KeyPressEvent(Widget, ev)
       IN  /\ Len(r.out) > 0 => total_keystrokes < MaxKeystrokes
           /\ SetWidget(r.w)
           /\ out' = r.out
           /\ reads' = r.reads
           /\ progress_bar' = IF Len(r.out) > 0
                              THEN ToInt(GetProgressPercentage(r.out[1].at))
                              ELSE progress_bar
           /\ IF Len(r.out) > 1
              THEN EndGame(TRUE)
              ELSE /\ UNCHANGED <<timer_active, input_enabled, start_enabled,
                                  timer_display, message_box>>
                   /\ calls' = <<>>
    /\ UNCHANGED <<remaining_seconds, elapsed_seconds>>
    /\ last' = [kind |-> "key", ev |-> ev]

\* the user closes the results box: end_game goes on after
\* QMessageBox.information and writes the outcome to the timer label
CloseResults ==
    /\ message_box # ""
    /\ timer_display' = IF message_box = "Congratulations!"
                        THEN "Completed!" ELSE "Time's Up!"
    /\ message_box' = ""
    /\ UNCHANGED <<widgetVars, remaining_seconds, elapsed_seconds,
                   timer_active, input_enabled, start_enabled, progress_bar>>
    /\ last' = [kind |-> "close"]
    /\ out' = <<>>
    /\ calls' = <<>>
    /\ reads' = <<>>

\* what generate_code meets in Spec: no client, a failure, a short answer
ShortReplies == { Unavailable, Raises, Answer(<<>>), Answer(<<"x", NL, "x">>) }

Next ==
    \/ \E language \in Languages, t \in TimerTexts, reply \in ShortReplies :
          StartGame(language, t, reply)
    \/ UpdateTimer
    \/ \E ev \in KeyEvents : KeyPress(ev)
    \/ CloseResults

Spec == Init /\ [][Next]_vars

\* the window with a game_timer that keeps firing while it is active: a
\* running QTimer of interval 1000 ms times out again and again
FairSpec == Init /\ [][Next]_vars /\ WF_vars(UpdateTimer)

----------------------------------------------------------------------------
(* Session starts with answers around the 175 and 200 line limits *)

\* n lines "x", each ended by a newline
XLines(n) == [i \in 1..(2 * n) |-> IF i % 2 = 1 THEN "x" ELSE NL]

\* a text without its last character
DropLast(text) == SubSeq(text, 1, Len(text) - 1)

\* 174, 175, 200, 201 and 202 lines, with and without the final newline; 201
\* lines whose 200th is empty; 260 lines
LongTexts ==
    { XLines(174), XLines(175), XLines(200), XLines(201), XLines(202),
      DropLast(XLines(174)), DropLast(XLines(175)), DropLast(XLines(200)),
      DropLast(XLines(201)),
      XLines(199) \o <<NL>> \o XLines(1),
      XLines(260) }

Replies == ShortReplies \cup { Answer(text) : text \in LongTexts }

ProviderNext ==
    \/ \E language \in Languages, t \in TimerTexts, reply \in Replies :
          StartGame(language, t, reply)
    \/ UpdateTimer
    \/ CloseResults

ProviderSpec == Init /\ [][ProviderNext]_vars

----------------------------------------------------------------------------
(* The widget on its own *)

\* set_target_code(code) called directly
CallSetTargetCode(code) ==
    /\ SetWidget(SetTargetCode(Widget, code))
    /\ last' = [kind |-> "set", code |-> code, before |-> Widget]
    /\ out' = <<>>
    /\ calls' = <<>>
    /\ reads' = <<>>
    /\ UNCHANGED windowVars

\* keyPressEvent(ev) called directly
CallKeyPressEvent(ev) ==
    /\ LET r == KeyPressEvent(Widget, ev)
       IN  /\ Len(r.out) > 0 => total_keystrokes < MaxKeystrokes
           /\ SetWidget(r.w)
           /\ out' = r.out
           /\ reads' = r.reads
    /\ calls' = <<>>
    /\ last' = [kind |-> "key", ev |-> ev]
    /\ UNCHANGED windowVars

WidgetNext ==
    \/ \E code \in WidgetTargets : CallSetTargetCode(code)
    \/ \E ev \in KeyEvents : CallKeyPressEvent(ev)

WidgetSpec == Init /\ [][WidgetNext]_vars

----------------------------------------------------------------------------
(* Properties *)

\* the logical character of a key event: Enter/Return is newline
LogicalChar(ev) == IF IsEnterKey(ev) THEN NL ELSE ev.text

\* the key events keyPressEvent compares with the target
Evaluated(ev) == IsEnterKey(ev) \/ IsCharKey(ev)

InProgress == target_code # <<>> /\ current_position < Len(target_code)

Complete == current_position = Len(target_code)

Signals(o, name) == { i \in 1..Len(o) : o[i].sig = name }

\* C1: in an InProgress state, an evaluated keystroke whose character is the
\* expected one adds 1 to total_keystrokes, leaves error_count as it is and
\* adds 1 to current_position.
C1_CorrectKeystroke ==
    [][(/\ last'.kind = "key"
        /\ InProgress
        /\ Evaluated(last'.ev)
        /\ LogicalChar(last'.ev) = target_code[current_position + 1])
       => (/\ total_keystrokes' = total_keystrokes + 1
           /\ error_count' = error_count
           /\ current_position' = current_position + 1)]_vars

\* a correct keystroke was handled and the session goes on
C1_Witness ==
    /\ last.kind = "key"
    /\ Len(out) = 1
    /\ out[1].is_correct
    /\ current_position = out[1].position + 1
    /\ current_position < Len(target_code)

\* C2: in an InProgress state, an evaluated keystroke whose character is not
\* the expected one adds 1 to total_keystrokes and to error_count and leaves
\* current_position, the target and the typed text as they are, so the slot
\* still expects the same character.
C2_IncorrectKeystroke ==
    [][(/\ last'.kind = "key"
        /\ InProgress
        /\ Evaluated(last'.ev)
        /\ LogicalChar(last'.ev) # target_code[current_position + 1])
       => (/\ total_keystrokes' = total_keystrokes + 1
           /\ error_count' = error_count + 1
           /\ current_position' = current_position
           /\ target_code' = target_code
           /\ typed' = typed
           /\ target_code'[current_position' + 1] = target_code[current_position + 1])]_vars

\* a wrong keystroke was handled after a correct one
C2_Witness ==
    /\ last.kind = "key"
    /\ Len(out) = 1
    /\ ~out[1].is_correct
    /\ current_position = out[1].position
    /\ current_position > 0
    /\ error_count > 0

\* C3: between two session starts current_position never decreases, under
\* keystrokes and timer ticks alike, and 0 <= current_position <=
\* Len(target_code) in every reachable state.
C3_PositionMonotoneBounded ==
    /\ [](0 <= current_position /\ current_position <= Len(target_code))
    /\ [][last'.kind # "start" => current_position' >= current_position]_vars

\* a tick arrived in a session that has advanced and has seen an error
C3_Witness ==
    /\ last.kind = "tick"
    /\ timer_active
    /\ current_position > 0
    /\ current_position < Len(target_code)
    /\ error_count > 0

\* C4: once current_position = Len(target_code), a key event of any kind
\* leaves current_position, error_count and total_keystrokes as they are and
\* emits no signal; only set_target_code leaves the state.
C4_CompleteIsTerminal ==
    [][(Complete /\ last'.kind = "key")
       => (/\ current_position' = current_position
           /\ error_count' = error_count
           /\ total_keystrokes' = total_keystrokes
           /\ target_code' = target_code
           /\ out' = <<>>)]_vars

\* a character or Enter key event was handled after the target was completed
C4_Witness ==
    /\ target_code # <<>>
    /\ Complete
    /\ last.kind = "key"
    /\ Evaluated(last.ev)
    /\ out = <<>>

\* C5: typing_complete is emitted by exactly the steps in which a correct
\* keystroke moves current_position to Len(target_code); it is the second
\* signal of the step, after that keystroke's typing_progress, and at its
\* emission the position is already Len(target_code).
C5_CompletionSignal ==
    [][/\ (Signals(out', "typing_complete") # {})
          <=> (/\ last'.kind = "key"
               /\ current_position' = current_position + 1
               /\ current_position' = Len(target_code'))
       /\ (Signals(out', "typing_complete") # {})
          => (/\ Len(out') = 2
              /\ out'[1].sig = "typing_progress"
              /\ out'[1].is_correct
              /\ out'[2].sig = "typing_complete"
              /\ out'[2].at.current_position = Len(out'[2].at.target_code)
              /\ out'[2].at.current_position = out'[1].position + 1)]_vars

\* the session ended by completion, after an error on the way
C5_Witness ==
    /\ last.kind = "key"
    /\ Len(out) = 2
    /\ out[2].sig = "typing_complete"
    /\ current_position = Len(target_code)
    /\ error_count > 0
    /\ message_box = "Congratulations!"

\* one step of the scenario of C6: from the counters (p, e, n) of target
\* "ab" the key k gives the outcome (op, oc) and the counters (p2, e2, n2)
ScenarioStep(p, e, n, k, op, oc, p2, e2, n2) ==
    (/\ target_code = <<"a", "b">>
     /\ current_position = p /\ error_count = e /\ total_keystrokes = n
     /\ last'.kind = "key" /\ last'.ev = k)
    => (/\ Len(out') >= 1
        /\ out'[1].sig = "typing_progress"
        /\ out'[1].position = op
        /\ out'[1].is_correct = oc
        /\ current_position' = p2 /\ error_count' = e2 /\ total_keystrokes' = n2)

\* C6: an evaluated keystroke in an InProgress state emits exactly one
\* typing_progress (p, is_correct), first, with p the position before the
\* keystroke and is_correct whether its character is the expected one; for
\* the target "ab" the keys a, x, b give (0, true), (1, false), (1, true)
\* and end with error_count 1, total_keystrokes 3, current_position 2.
C6_ProgressOutcome ==
    [][/\ (/\ last'.kind = "key"
           /\ InProgress
           /\ Evaluated(last'.ev))
          => (/\ Cardinality(Signals(out', "typing_progress")) = 1
              /\ out'[1].sig = "typing_progress"
              /\ out'[1].position = current_position
              /\ out'[1].is_correct
                   = (LogicalChar(last'.ev) = target_code[current_position + 1]))
       /\ ScenarioStep(0, 0, 0, KeyA, 0, TRUE,  1, 0, 1)
       /\ ScenarioStep(1, 0, 1, KeyX, 1, FALSE, 1, 1, 2)
       /\ ScenarioStep(1, 1, 2, KeyB, 1, TRUE,  2, 1, 3)]_vars

\* the end of the scenario: "ab" typed as a, x, b
C6_Witness ==
    /\ target_code = <<"a", "b">>
    /\ last = [kind |-> "key", ev |-> KeyB]
    /\ Len(out) = 2
    /\ out[1].position = 1 /\ out[1].is_correct
    /\ current_position = 2 /\ error_count = 1 /\ total_keystrokes = 3

\* a character key event whose text is the newline
NewlineChar == [key |-> "Key_unknown", text |-> NL, mods |-> {}]

\* C7: in every state of the widget an Enter or Return key event, whatever
\* its modifiers, changes the widget and emits signals exactly as a
\* character key event with the character newline does: at a newline slot it
\* advances current_position by 1, elsewhere it is an error, and a letter
\* key at a newline slot is an error.
C7_EnterIsNewline ==
    [][/\ (last'.kind = "key" /\ IsEnterKey(last'.ev))
          => (/\ Widget' = KeyPressEvent(Widget, NewlineChar).w
              /\ out' = KeyPressEvent(Widget, NewlineChar).out
              /\ (InProgress /\ target_code[current_position + 1] = NL)
                 => (current_position' = current_position + 1
                     /\ error_count' = error_count)
              /\ (InProgress /\ target_code[current_position + 1] # NL)
                 => (current_position' = current_position
                     /\ error_count' = error_count + 1))
       /\ (/\ last'.kind = "key"
           /\ last'.ev \in {KeyA, KeyB, KeyX}
           /\ InProgress
           /\ target_code[current_position + 1] = NL)
          => (current_position' = current_position
              /\ error_count' = error_count + 1)]_vars

\* Control+Return was handled at a newline slot and advanced the caret
C7_Witness ==
    /\ last = [kind |-> "key", ev |-> CtrlReturn]
    /\ Len(out) >= 1
    /\ out[1].is_correct
    /\ current_position = out[1].position + 1
    /\ typed[cursor] = NL

\* C8: 0 <= error_count <= total_keystrokes in every reachable state, and
\* between two session starts neither counter decreases.
C8_CountersOrdered ==
    /\ [](0 <= error_count /\ error_count <= total_keystrokes)
    /\ [][last'.kind # "start"
          => (error_count' >= error_count
              /\ total_keystrokes' >= total_keystrokes)]_vars

\* a session timed out with errors and correct keystrokes counted
C8_Witness ==
    /\ timer_display = "Time's Up!"
    /\ error_count > 0
    /\ error_count < total_keystrokes

\* C9: set_target_code(text), in whatever state it is called, leaves the
\* widget with the target text, current_position, error_count and
\* total_keystrokes 0 and an empty typed text; a second call with the same
\* text changes nothing.
C9_SetTargetResets ==
    last.kind = "set"
    => (/\ target_code = last.code
        /\ current_position = 0
        /\ error_count = 0
        /\ total_keystrokes = 0
        /\ typed = <<>>
        /\ SetTargetCode(Widget, last.code) = Widget
        /\ SetTargetCode(SetTargetCode(last.before, last.code), last.code)
             = SetTargetCode(last.before, last.code))

\* set_target_code was called in a session with all counters above zero
C9_Witness ==
    /\ last.kind = "set"
    /\ last.before.current_position > 0
    /\ last.before.error_count > 0
    /\ last.before.total_keystrokes > last.before.error_count
    /\ last.before.target_code # last.code
    /\ Widget = SetTargetCode(last.before, last.code)

\* C10: while no target is set, a key event of any kind leaves
\* current_position, error_count and total_keystrokes at 0 and emits no
\* signal.
C10_IdleIgnoresInput ==
    /\ [](target_code = <<>>
          => (current_position = 0 /\ error_count = 0 /\ total_keystrokes = 0))
    /\ [][(target_code = <<>> /\ last'.kind = "key")
          => (/\ target_code' = <<>>
              /\ current_position' = 0
              /\ error_count' = 0
              /\ total_keystrokes' = 0
              /\ out' = <<>>)]_vars

\* a character key event was handled with no target set
C10_Witness ==
    /\ target_code = <<>>
    /\ last = [kind |-> "key", ev |-> KeyA]
    /\ out = <<>>
    /\ total_keystrokes = 0

\* the seconds of a timer_combo entry
DurationOf(t) ==
    CASE t.n = 30 -> 30 [] t.n = 1 -> 60 [] t.n = 2 -> 120 [] t.n = 3 -> 180

\* the value of a quotient is the integer n
RatIs(r, n) == r.den # 0 /\ r.num = n * r.den

\* how often a call was made by the last handler
CallCount(name) == Cardinality({ i \in 1..Len(calls) : calls[i] = name })

\* the lines of a text, counted by its newlines
LineCount(text) ==
    Cardinality({ i \in 1..Len(text) : text[i] = NL })
    + (IF Len(text) > 0 /\ text[Len(text)] # NL THEN 1 ELSE 0)

\* code is the first n lines of text, the newline after the n-th left out
IsFirstLines(code, text, n) ==
    /\ Len(code) < Len(text)
    /\ code = SubSeq(text, 1, Len(code))
    /\ text[Len(code) + 1] = NL
    /\ Cardinality({ i \in 1..Len(code) : code[i] = NL }) = n - 1

\* the built-in snippet start_game falls back to in the session started last
RequestedSample ==
    CASE last.language = "C++"        -> <<"a", NL, "b">>
      [] last.language = "Java"       -> <<"a", NL>>
      [] last.language = "Rust"       -> <<"a">>
      [] last.language = "JavaScript" -> <<"b">>
      [] OTHER                        -> <<"a", "b">>

\* the session ended as timed out: the box says so, then the timer label
TimedOut == message_box = "Time's up!" \/ timer_display = "Time's Up!"

\* the session ended as completed: the box says so, then the timer label
Completed == message_box = "Congratulations!" \/ timer_display = "Completed!"

\* C11: a tick that brings remaining_seconds to 0 ends the session as timed
\* out, not as completed: the timer is stopped and the input disabled, and
\* until the next start no step changes current_position, error_count,
\* total_keystrokes, remaining_seconds or elapsed_seconds.
C11_TimeoutEndsSession ==
    /\ []((last.kind = "tick" /\ remaining_seconds = 0)
          => (/\ TimedOut
              /\ ~Completed
              /\ ~timer_active
              /\ ~input_enabled
              /\ calls = <<"QMessageBox.information">>))
    /\ [][(TimedOut /\ last'.kind # "start")
          => (/\ current_position' = current_position
              /\ error_count' = error_count
              /\ total_keystrokes' = total_keystrokes
              /\ remaining_seconds' = remaining_seconds
              /\ elapsed_seconds' = elapsed_seconds
              /\ ~timer_active'
              /\ TimedOut'
              /\ ~Completed')]_vars

\* a 30 second session timed out in the middle of its target
C11_Witness ==
    /\ last.kind = "tick"
    /\ remaining_seconds = 0
    /\ elapsed_seconds = 30
    /\ current_position > 0
    /\ current_position < Len(target_code)
    /\ message_box = "Time's up!"

\* C12: a tick takes 1 from remaining_seconds, adds 1 to elapsed_seconds and
\* leaves the widget alone; a start makes their sum the duration selected
\* and no other step changes the sum; remaining_seconds is never negative.
C12_TimerLockstep ==
    /\ [](remaining_seconds >= 0)
    /\ [][last'.kind = "tick"
          => (/\ remaining_seconds' = remaining_seconds - 1
              /\ elapsed_seconds' = elapsed_seconds + 1
              /\ Widget' = Widget)]_vars
    /\ [][last'.kind = "start"
          => remaining_seconds' + elapsed_seconds' = DurationOf(last'.timer)]_vars
    /\ [][last'.kind # "start"
          => remaining_seconds' + elapsed_seconds'
               = remaining_seconds + elapsed_seconds]_vars

\* 59 ticks into a 3 minute session
C12_Witness ==
    /\ last.kind = "tick"
    /\ timer_active
    /\ elapsed_seconds = 59
    /\ remaining_seconds = 121

\* C13: a modifier-only or control key event (Shift alone, Left, Backspace)
\* changes no counter and emits no signal.
C13_ControlKeysNotEvaluated ==
    [][(last'.kind = "key" /\ last'.ev \in {KeyShift, KeyLeft, KeyBackspace})
       => (/\ current_position' = current_position
           /\ error_count' = error_count
           /\ total_keystrokes' = total_keystrokes
           /\ out' = <<>>)]_vars

\* C14: the typed text is the target up to current_position.
C14_TypedIsTargetPrefix == typed = SubSeq(target_code, 1, current_position)

\* C15: every index at which a handler reads _target_code is at least 0 and
\* less than the length of the target; an evaluated keystroke reads at the
\* position it reports and nothing else reads.
C15_ReadsInRange ==
    /\ \A i \in 1..Len(reads) : 0 <= reads[i] /\ reads[i] < Len(target_code)
    /\ out # <<>> => reads = <<out[1].position>>
    /\ out = <<>> => reads = <<>>

\* the last character of the target was read and the target completed
C15_Witness ==
    /\ last.kind = "key"
    /\ Len(target_code) > 1
    /\ reads = <<Len(target_code) - 1>>
    /\ Complete

\* C16: with the empty text as target the widget is Complete and not
\* InProgress, from the call of set_target_code on: current_position = 0 =
\* Len(target_code) and the counters are 0; a key event then changes nothing
\* and emits nothing; and the metrics are 0, 100 and, for every number of
\* seconds a session can reach, 0.
C16_EmptyTargetIsComplete ==
    /\ [](target_code = <<>>
          => (/\ Complete
              /\ ~InProgress
              /\ current_position = 0
              /\ error_count = 0
              /\ total_keystrokes = 0
              /\ RatIs(GetProgressPercentage(Widget), 0)
              /\ RatIs(GetAccuracy(Widget), 100)
              /\ \A t \in TimerTexts : \A sec \in 0..ParseTimer(t) :
                    RatIs(GetWpm(Widget, sec), 0)))
    /\ []((last.kind = "set" /\ last.code = <<>>) => target_code = <<>>)
    /\ [][(target_code = <<>> /\ last'.kind = "key")
          => (Widget' = Widget /\ out' = <<>>)]_vars

\* the empty text was set in a session that had counted keystrokes
C16_Witness ==
    /\ last.kind = "set"
    /\ last.code = <<>>
    /\ last.before.total_keystrokes > 0
    /\ last.before.current_position > 0
    /\ target_code = <<>>

\* C17: when generate_code has no client or its request fails, the session
\* starts with the snippet of the requested language and a warning is shown.
C17_FallbackWithWarning ==
    (last.kind = "start" /\ last.reply.kind \in {"unavailable", "raises"})
    => (/\ target_code = RequestedSample
        /\ CallCount("QMessageBox.warning") >= 1
        /\ timer_active
        /\ input_enabled)

\* C18: a text of more than 200 lines is cut to its first 200, one of fewer
\* than 175 is replaced by the snippet of the requested language, one of 175
\* to 200 is used as it is, none with a warning; so the target of a session
\* is a snippet or has 175 to 200 lines.
C18_LengthBand ==
    /\ (last.kind = "start" /\ last.reply.kind = "text")
       => LET text == last.reply.text
              n == LineCount(text)
          IN  /\ n > 200 => IsFirstLines(target_code, text, 200)
              /\ n < 175 => target_code = RequestedSample
              /\ (175 <= n /\ n <= 200) => target_code = text
              /\ CallCount("QMessageBox.warning") = 0
    /\ \/ target_code = <<>> /\ last.kind = "init"
       \/ \E language \in Languages : target_code = GetSampleCode(LanguageCode(language))
       \/ 175 <= LineCount(target_code) /\ LineCount(target_code) <= 200

\* a text of more than 200 lines was cut to 200 lines
C18_Witness ==
    /\ last.kind = "start"
    /\ last.reply.kind = "text"
    /\ LineCount(last.reply.text) = 202
    /\ LineCount(target_code) = 200
    /\ Len(target_code) = 399

\* C19: a session start asks the provider at most once and substitutes the
\* snippet exactly once when it has to recover, never more than once.
C19_FallbackOnce ==
    last.kind = "start"
    => (/\ CallCount("chat.completions.create") <= 1
        /\ CallCount("_get_sample_code") <= 1
        /\ (\/ last.reply.kind \in {"unavailable", "raises"}
            \/ LineCount(last.reply.text) < 175)
           => CallCount("_get_sample_code") = 1)

\* C20: the start button is enabled exactly when the timer is stopped and
\* the typing input disabled; a session starts only from such a state, and
\* only a start changes the target.
C20_OneSession ==
    /\ [](start_enabled <=> (~timer_active /\ ~input_enabled))
    /\ [](timer_active <=> input_enabled)
    /\ [][last'.kind = "start"
          => (~timer_active /\ ~input_enabled /\ start_enabled
              /\ timer_active' /\ ~start_enabled')]_vars
    /\ [][(timer_active \/ last'.kind # "start")
          => target_code' = target_code]_vars

\* a JavaScript session has just been started
C20_Witness ==
    /\ last.kind = "start"
    /\ last.language = "JavaScript"
    /\ timer_active
    /\ input_enabled
    /\ ~start_enabled
    /\ target_code = <<"b">>

\* the rational r is the quotient n / d
RatEq(r, n, d) == r.den # 0 /\ d # 0 /\ r.num * d = n * r.den

\* the widget with other counter values and the same position
WithCounters(e, n) ==
    [Widget EXCEPT !.error_count = e, !.total_keystrokes = n]

\* C21: the derived metrics have the stated values in every state: accuracy
\* is 100 with no keystrokes and 100 - 100 * error_count / total_keystrokes
\* otherwise, within 0..100; words per minute is 0 at 0 elapsed seconds and
\* (current_position / 5) / (elapsed_seconds / 60) otherwise, the same for
\* every error_count and total_keystrokes; progress is
\* 100 * current_position / len(target_code), 0 for the empty target.  The
\* handler that reads all three, end_game on a timeout, leaves the widget's
\* state as it found it.
C21_DerivedMetrics ==
    /\ [](LET acc  == GetAccuracy(Widget)
              wpm  == GetWpm(Widget, elapsed_seconds)
              prog == GetProgressPercentage(Widget)
          IN  /\ total_keystrokes = 0 => acc = Rat(100, 1)
              /\ total_keystrokes # 0 =>
                    /\ RatEq(acc, 100 * total_keystrokes - 100 * error_count,
                             total_keystrokes)
                    /\ RatEq(acc, 0, 1) \/ acc.num * acc.den > 0
                    /\ RatEq(acc, 100, 1)
                          \/ (100 * acc.den - acc.num) * acc.den > 0
              /\ elapsed_seconds = 0 => wpm = Rat(0, 1)
              /\ elapsed_seconds # 0 =>
                    RatEq(wpm, current_position * 60, 5 * elapsed_seconds)
              /\ \A e \in 0..MaxKeystrokes, n \in 0..MaxKeystrokes :
                    GetWpm(WithCounters(e, n), elapsed_seconds) = wpm
              /\ target_code = <<>> => prog = Rat(0, 1)
              /\ target_code # <<>> =>
                    RatEq(prog, 100 * current_position, Len(target_code)))
    /\ [][last'.kind = "tick" => UNCHANGED widgetVars]_vars

\* a timeout with 2 of 3 characters typed and 1 error among 3 keystrokes:
\* end_game reads accuracy 200/3, 4/5 of a word per minute, progress 200/3
C21_Witness ==
    /\ last.kind = "tick"
    /\ ~timer_active
    /\ elapsed_seconds = 30
    /\ Len(target_code) = 3
    /\ current_position = 2
    /\ error_count = 1
    /\ total_keystrokes = 3
    /\ RatEq(GetAccuracy(Widget), 200, 3)
    /\ RatEq(GetWpm(Widget, elapsed_seconds), 4, 5)
    /\ RatEq(GetProgressPercentage(Widget), 200, 3)

Counters == <<current_position, error_count, total_keystrokes>>

\* C22: total_keystrokes = current_position + error_count in every state.
\* A key event compared with the target adds 1 to total_keystrokes and 1 to
\* exactly one of current_position and error_count; a start sets the three
\* counters to 0; every other step (a tick, a key event passed through, a
\* key event at the end of the target) leaves them as they are.
C22_KeystrokesAccounted ==
    /\ [](total_keystrokes = current_position + error_count)
    /\ [][/\ (last'.kind = "key" /\ Evaluated(last'.ev) /\ InProgress) =>
                /\ total_keystrokes' = total_keystrokes + 1
                /\ \/ /\ current_position' = current_position + 1
                      /\ error_count' = error_count
                   \/ /\ current_position' = current_position
                      /\ error_count' = error_count + 1
          /\ (last'.kind = "key" /\ ~(Evaluated(last'.ev) /\ InProgress)) =>
                UNCHANGED Counters
          /\ last'.kind = "tick" => UNCHANGED Counters
          /\ last'.kind \in {"start", "set"} => Counters' = <<0, 0, 0>>
         ]_vars

\* a wrong Enter after a typed character: 1 + 1 = 2
C22_Witness ==
    /\ last.kind = "key"
    /\ IsEnterKey(last.ev)
    /\ current_position = 1
    /\ error_count = 1
    /\ total_keystrokes = 2

\* how often the last handler ran end_game (each run shows the results box)
EndGameRuns == CallCount("QMessageBox.information")

\* C23: a session ends once, as completed or as timed out.  end_game runs
\* at most once in a handler, only while a session is running, and it stops
\* the session; a session stops in no other way and a start needs a stopped
\* session, so end_game runs once between two starts.  The completion signal
\* ends the session as completed, and once the target is typed no tick
\* follows; a tick that ends the session ends it as timed out without a
\* completion signal, and after a timeout no completion signal is emitted.
\* Closing the results box runs no end_game and keeps the outcome.
C23_EndsExactlyOnce ==
    /\ [](EndGameRuns <= 1)
    /\ [][EndGameRuns' = 1 =>
             (timer_active /\ ~timer_active' /\ ~input_enabled'
              /\ start_enabled')]_vars
    /\ [][(timer_active /\ ~timer_active') => EndGameRuns' = 1]_vars
    /\ [][last'.kind = "start" => (~timer_active /\ timer_active')]_vars
    /\ [][Signals(out', "typing_complete") # {} =>
             (/\ last'.kind = "key"
              /\ EndGameRuns' = 1
              /\ ~timer_active'
              /\ Completed'
              /\ ~TimedOut')]_vars
    /\ [][(target_code # <<>> /\ Complete) => last'.kind # "tick"]_vars
    /\ [][(last'.kind = "tick" /\ EndGameRuns' = 1) =>
             (/\ remaining_seconds' = 0
              /\ TimedOut'
              /\ ~Completed'
              /\ out' = <<>>)]_vars
    /\ [][TimedOut => Signals(out', "typing_complete") = {}]_vars
    /\ [][Completed' =>
             (Completed \/ Signals(out', "typing_complete") # {})]_vars
    /\ [][last'.kind = "close" =>
             (/\ EndGameRuns = 1
              /\ Completed <=> Completed'
              /\ TimedOut <=> TimedOut'
              /\ UNCHANGED <<timer_active, input_enabled, start_enabled>>)]_vars
    /\ [](~(Completed /\ TimedOut))

\* the last character typed with time left: ended as completed, timer stopped
C23_Witness ==
    /\ last.kind = "key"
    /\ Signals(out, "typing_complete") # {}
    /\ EndGameRuns = 1
    /\ message_box = "Congratulations!"
    /\ ~timer_active
    /\ remaining_seconds > 0
    /\ elapsed_seconds > 0

\* C24: after a key event compared with the target, slots included, the
\* progress bar shows int() of the progress percentage of the position
\* reached, and 100 when the session has ended as completed.
C24_ProgressBarCurrent ==
    /\ (last.kind = "key" /\ Len(out) > 0) =>
          progress_bar = ToInt(GetProgressPercentage(Widget))
    /\ Completed => progress_bar = 100

\* C25: a running session is eventually stopped, whatever keys are pressed,
\* given that the timer keeps ticking; while it runs remaining_seconds is
\* positive, and each tick takes 1 from it, so the session is over after at
\* most as many ticks as the duration selected has seconds.
C25_SessionEnds ==
    /\ timer_active ~> ~timer_active
    /\ [](timer_active => remaining_seconds > 0)
    /\ [](timer_active =>
             remaining_seconds + elapsed_seconds \in {30, 60, 120, 180})
    /\ [][(timer_active /\ timer_active') =>
             (remaining_seconds' = remaining_seconds
              \/ remaining_seconds' = remaining_seconds - 1)]_vars

\* a 3 minute session with wrong and right keystrokes in it, ended by its
\* 180th tick
C25_Witness ==
    /\ last.kind = "tick"
    /\ ~timer_active
    /\ remaining_seconds = 0
    /\ elapsed_seconds = 180
    /\ error_count > 0
    /\ current_position > 0
    /\ cursor < Len(typed)

====
